---- MODULE Spec2Model ----
(***************************************************************************)
(* A model of extract_image_taken_datetime.py: the ExifTool context        *)
(* manager (the persistent worker process, batch submission, the framed    *)
(* reading of its JSON answer, the re-expansion to the input order) and    *)
(* DatetimeKeyValue.get_datetime_value_by_key (the priority-ordered tag    *)
(* search with timezone attachment).                                       *)
(***************************************************************************)
EXTENDS Integers, Sequences, FiniteSets, TLC

VARIABLES
    target_tags,   \* ExifTool.__target_tags, set by the constructor
    process,       \* ExifTool.__process: 0 is None, n >= 1 the n-th Popen handle
    spawned,       \* how many worker processes subprocess.Popen has started
    worker,        \* the worker process: "none", "running" or "exited"
    stdin_closed,  \* process.stdin.closed
    stdout_closed, \* process.stdout.closed
    stderr_closed, \* process.stderr.closed
    stdin_dirty,   \* process.stdin holds text a failed flush left in its buffer
    shutdown_sent, \* the worker has received the -stay_open False directive
    pending,       \* -execute directives the worker has received and not answered
    emitted,       \* lines the worker has written for the request it is answering
    out,           \* the worker's stdout pipe: lines written and not yet read
    stderr_pipe,   \* the worker's stderr pipe: how many lines written and not read
    owner,         \* the calls (caller, number) the worker has to answer, and whose each line of out is
    calls,         \* execute_on_files calls begun so far
    now,           \* time.monotonic()
    call,          \* per caller: the operation in progress or last finished
    driver,        \* the driver program: which one it is and where it stands
    dict_list,         \* get_datetime_value_by_key: argument
    target_key_list,   \* get_datetime_value_by_key: argument
    default_timezone,  \* get_datetime_value_by_key: argument
    resolved,          \* get_datetime_value_by_key: its outcome
    today,             \* datetime.datetime.now().date(), read by dateutil's parser
    resolved_again,    \* the outcome of a second call with the same arguments
    display_timezone,  \* LOCAL_TIMEZONE_FOR_UNIX_TIMESTAMP
    unix_column        \* the DATETIME_LOCAL_UNIX column, or the error that ended the run

vars == <<target_tags, process, spawned, worker, stdin_closed, stdout_closed,
          stderr_closed, stdin_dirty, shutdown_sent, pending, emitted, out,
          stderr_pipe, owner, calls, now, call, driver, dict_list, target_key_list,
          default_timezone, resolved, today, resolved_again, display_timezone,
          unix_column>>

sessionVars == <<target_tags, process, spawned, worker, stdin_closed,
                 stdout_closed, stderr_closed, stdin_dirty, shutdown_sent,
                 pending, emitted, out, stderr_pipe, owner, calls, now, call>>

resolveVars == <<dict_list, target_key_list, default_timezone, resolved, today,
                 resolved_again, display_timezone, unix_column>>

(***************************************************************************)
(* Bounds of the model.                                                    *)
(***************************************************************************)
MaxPaths == 2   \* longest file_paths_list submitted in one call
MaxOut == 2     \* most lines the worker writes in answer to one request
MaxCalls == 2   \* execute_on_files calls in one run
MaxRecords == 2 \* longest dict_list given to get_datetime_value_by_key
MaxKeys == 3    \* longest target_key_list
MaxDays == 1    \* midnights that pass during one run
MaxTime == 4    \* seconds of time.monotonic() that pass during one run
PipeCapacity == 2   \* lines a pipe holds before a write to it blocks

(***************************************************************************)
(* Generic helpers.                                                        *)
(***************************************************************************)
SeqsUpTo(S, n) == UNION {[1..k -> S] : k \in 0..n}

RECURSIVE Concat(_)
Concat(ss) == IF ss = <<>> THEN <<>> ELSE Head(ss) \o Concat(Tail(ss))

RECURSIVE Filter(_, _)
Filter(s, keep) ==
    IF s = <<>> THEN <<>>
    ELSE IF Head(s) \in keep THEN <<Head(s)>> \o Filter(Tail(s), keep)
    ELSE Filter(Tail(s), keep)

Range(s) == {s[i] : i \in DOMAIN s}

(***************************************************************************)
(* Metadata records and the JSON values a tag can hold.  A record maps     *)
(* every tag name to a cell: absent, JSON null, or a value.  A string is   *)
(* modelled by its shape: a datetime with a date separator, a wall-clock   *)
(* reading and an offset suffix, a zero date, words, or a long run of      *)
(* digits, or a time of day with no date.  ExifTool's -j prints a value    *)
(* that looks like a number as a JSON number, which json.loads decodes to  *)
(* an int.  Wall-clock readings count hours from 0001-01-01 00:00, on a    *)
(* scale shrunk to the range MinWall..MaxWall of datetime.datetime.        *)
(***************************************************************************)
Tags == {"A", "B", "C"}

Offsets == {"+00:00", "+09:00"}

Zones == {"UTC", "Asia/Tokyo"}

Absent == [kind |-> "absent"]

Null == [kind |-> "null"]

Str(form, sep, wall, off) ==
    [kind |-> "str", form |-> form, sep |-> sep, wall |-> wall, off |-> off]

ExifNaive == Str("datetime", ":", 100, "none")     \* "2022:01:02 03:04:05"

IsoOffset == Str("datetime", "-", 200, "+09:00")   \* "2022-01-02 04:04:05+09:00"

ZeroDate == Str("zerodate", ":", 0, "none")        \* "0000:00:00 00:00:00"

Words == Str("words", "", 0, "none")               \* "unknown"

Digits == Str("digits", "", 0, "none")             \* "99999999999999999999"

Number == [kind |-> "int"]                         \* 2022, a JSON number

TimeOnly == Str("time", "", 3, "none")             \* "03:04:05", no date

Values == {ExifNaive, IsoOffset, ZeroDate, Words, Digits, Number, TimeOnly}

Cells == {Absent, Null} \cup Values

Records == [Tags -> Cells]

NoData == [kind |-> "None"]

Dict(tags) == [kind |-> "dict", tags |-> tags]

Rec1 == Dict([t \in Tags |-> IF t = "A" THEN ExifNaive ELSE Absent])

Rec2 == Dict([t \in Tags |-> IF t = "B" THEN IsoOffset ELSE Absent])

\* dict.keys(): the tag names a decoded record holds (a null value is a key too)
Keys(d) == {t \in Tags : d.tags[t] # Absent}

(***************************************************************************)
(* Text.  A line of the worker's output is a sequence of tokens ending in  *)
(* a newline; readline() returns the empty string at end of stream.        *)
(***************************************************************************)
LB == [t |-> "["]

RB == [t |-> "]"]

COMMA == [t |-> ","]

WS == [t |-> " "]

NL == [t |-> "\n"]

X == [t |-> "x"]

READY == [t |-> "{ready}"]

Obj(d) == [t |-> "object", d |-> d]

IsObj(tok) == tok.t = "object"

Whitespace == {WS, NL}

EndOfStream == <<>>

LineArrOpen == <<LB, Obj(Rec1), COMMA, NL>>   \* [{...},

LineArrClose == <<Obj(Rec2), RB, NL>>         \* {...}]

LineArrOne == <<LB, Obj(Rec1), RB, NL>>       \* [{...}]

LineReady == <<READY, NL>>                    \* {ready}

LinePaddedReady == <<WS, READY, WS, NL>>      \*  {ready} with blanks around

LineReadyJunk == <<X, READY, NL>>             \* x{ready}

WorkerLines == {LineArrOpen, LineArrClose, LineArrOne, LineReady,
                LinePaddedReady, LineReadyJunk}

\* str.strip(): drop the leading and the trailing whitespace
RECURSIVE LStrip(_)
LStrip(s) ==
    IF s # <<>> /\ Head(s) \in Whitespace THEN LStrip(Tail(s)) ELSE s

RECURSIVE RStrip(_)
RStrip(s) ==
    IF s # <<>> /\ s[Len(s)] \in Whitespace
    THEN RStrip(SubSeq(s, 1, Len(s) - 1)) ELSE s

Strip(s) == RStrip(LStrip(s))

\* line.count('}'): one per object, one in the text {ready}
RECURSIVE CountBrace(_)
CountBrace(s) ==
    IF s = <<>> THEN 0
    ELSE (IF IsObj(Head(s)) \/ Head(s) = READY THEN 1 ELSE 0)
         + CountBrace(Tail(s))

\* json.loads(text): whitespace between tokens is skipped; the text must be
\* one JSON value: an array of objects or a single object
JsonItems(inner) ==
    IF inner = <<>> THEN [ok |-> TRUE, items |-> <<>>]
    ELSE IF /\ Len(inner) % 2 = 1
            /\ \A i \in DOMAIN inner :
                   IF i % 2 = 1 THEN IsObj(inner[i]) ELSE inner[i] = COMMA
         THEN [ok |-> TRUE,
               items |-> [k \in 1..((Len(inner) + 1) \div 2) |-> inner[2 * k - 1].d]]
         ELSE [ok |-> FALSE, items |-> <<>>]

JsonLoads(text) ==
    LET s == Filter(text, {tok \in Range(text) : tok \notin Whitespace})
        n == Len(s)
    IN  IF n >= 2 /\ s[1] = LB /\ s[n] = RB
        THEN LET r == JsonItems(SubSeq(s, 2, n - 1))
             IN  [ok |-> r.ok, kind |-> "list", items |-> r.items]
        ELSE IF n = 1 /\ IsObj(s[1])
        THEN [ok |-> TRUE, kind |-> "dict", items |-> <<s[1].d>>]
        ELSE [ok |-> FALSE, kind |-> "list", items |-> <<>>]

\* os.path.exists: the files on disk
Paths == {"e1", "e2", "m1"}

\* the name of an existing file that holds a newline character
NewlinePath == "e\n3"

ExistingFiles == {"e1", "e2", NewlinePath}

\* the lines of the text of a path: one, unless the path holds a newline
PathLines(p) == IF p = NewlinePath THEN <<"e", "3">> ELSE <<p>>

Exists(p) == p \in ExistingFiles

(***************************************************************************)
(* The ExifTool session.  Each caller is a thread of control using the     *)
(* session object; call[c] holds the operation it is in, or the outcome of *)
(* the last one it finished.  Some of its fields record what the caller    *)
(* met: entered and open, the state of the session when the operation was  *)
(* called; last_line, the value readline() returned last; foreign, whether *)
(* a line it read answers another caller's batch; prior, the errors of the *)
(* execute_on_files calls it made just before this one; number, which call *)
(* of execute_on_files of the run it is.                                   *)
(***************************************************************************)
Callers == {"c1", "c2"}

None == 0

Inf == [inf |-> TRUE, sec |-> 0]       \* float('inf')

Seconds(n) == [inf |-> FALSE, sec |-> n]

ExecuteDirective == "-execute"

IdleCall ==
    [op |-> "none", pc |-> "ready", outcome |-> "none", error |-> "none",
     file_paths_list |-> <<>>, period |-> Inf, exists_list |-> <<>>,
     masked |-> FALSE, written |-> <<>>, flushed |-> FALSE, reads |-> 0,
     lines_list |-> <<>>, files_processed |-> 0, started_time |-> 0,
     target_seconds_elapsed |-> 0, progress_logs |-> 0, final_logs |-> 0,
     result_list |-> <<>>, result |-> <<>>, notfound_warnings |-> <<>>,
     missing_warnings |-> <<>>, steps |-> <<>>, exit_warnings |-> 0,
     entered |-> FALSE, open |-> FALSE, last_line |-> <<>>,
     foreign |-> FALSE, prior |-> {}, number |-> 0]

\* no request reached the worker, no line is in its stdout pipe
NoOwner == [queue |-> <<>>, out |-> <<>>]

Raised(c0, err) == [c0 EXCEPT !.pc = "ready", !.outcome = "raised", !.error = err]

Returned(c0) == [c0 EXCEPT !.pc = "ready", !.outcome = "returned"]

\* ExifTool.__init__: no process yet
SessionStart ==
    /\ process = None
    /\ spawned = 0
    /\ worker = "none"
    /\ stdin_closed = FALSE
    /\ stdout_closed = FALSE
    /\ stderr_closed = FALSE
    /\ stdin_dirty = FALSE
    /\ shutdown_sent = FALSE
    /\ pending = 0
    /\ emitted = 0
    /\ out = <<>>
    /\ stderr_pipe = 0
    /\ owner = NoOwner
    /\ calls = 0
    /\ now = 0
    /\ call = [c \in Callers |-> IdleCall]

\* ExifTool.__init__
SessionInit ==
    /\ target_tags \in {<<>>, <<"A", "C">>}
    /\ SessionStart

AlreadyEnteredNever == FALSE

\* if self.__process is not None, the guard of __enter__
AlreadyEntered == process # None

\* ExifTool.__enter__
Enter(c) ==
    /\ call[c].pc = "ready"
    /\ IF AlreadyEntered
       THEN /\ call' = [call EXCEPT ![c] =
                           Raised([IdleCall EXCEPT !.op = "enter"], "AlreadyOpen")]
            /\ UNCHANGED <<process, spawned, worker, stdin_closed, stdout_closed,
                           stderr_closed, stdin_dirty, shutdown_sent, pending,
                           emitted, out, stderr_pipe, owner>>
       ELSE /\ process' = spawned + 1
            /\ spawned' = spawned + 1
            /\ worker' = "running"
            /\ stdin_closed' = FALSE
            /\ stdout_closed' = FALSE
            /\ stderr_closed' = FALSE
            /\ stdin_dirty' = FALSE
            /\ shutdown_sent' = FALSE
            /\ pending' = 0
            /\ emitted' = 0
            /\ out' = <<>>
            /\ stderr_pipe' = 0
            /\ owner' = NoOwner
            /\ call' = [call EXCEPT ![c] = Returned([IdleCall EXCEPT !.op = "enter"])]
    /\ UNCHANGED <<target_tags, calls, now>>
    /\ UNCHANGED <<driver, resolveVars>>

\* the worker process holds its ends of the pipes: it runs, or it waits in a
\* write to a pipe that is full
WorkerAlive == worker \in {"running", "blocked"}

\* stdin.write() + flush() of a line-buffered text pipe: fails on a closed
\* file object (ValueError) and on a pipe whose reader is gone (BrokenPipeError)
WriteError ==
    IF stdin_closed THEN "ValueError"
    ELSE IF ~WorkerAlive THEN "BrokenPipeError"
    ELSE "none"

ExitNotEnteredNever == FALSE

\* if self.__process is None: return, the guard of __exit__
ExitNotEntered == process = None

\* the steps of __exit__ in the order of the code: the shutdown directive,
\* the three streams, the process
ExitPlan == <<"write", "close_stdin", "close_stdout", "close_stderr", "terminate">>

\* what a step of __exit__ raises in the present state, "none" when it
\* succeeds: the write as any write to stdin; close() of stdin flushes its
\* buffer first and fails when text is left in it that the pipe does not
\* take, the file object being closed all the same; close() of a closed
\* stream, terminate() and wait() of a process that has exited do nothing
ExitError(step) ==
    IF step = "write" THEN WriteError
    ELSE IF step = "close_stdin"
    THEN (IF ~stdin_closed /\ (stdin_dirty \/ WriteError = "BrokenPipeError")
          THEN "BrokenPipeError" ELSE "none")
    ELSE "none"

ExitCatchesNothing(error) == FALSE

\* except Exception, around each step: every error a step raises is caught
\* and logged as a warning
ExitCatches(error) == TRUE

\* the steps __exit__ attempts, the warnings it logs, the error it leaves with
RECURSIVE ExitRun(_)
ExitRun(plan) ==
    IF plan = <<>> THEN [steps |-> <<>>, warnings |-> 0, error |-> "none"]
    ELSE LET error == ExitError(Head(plan))
         IN  IF error = "none"
             THEN [ExitRun(Tail(plan)) EXCEPT !.steps = <<Head(plan)>> \o @]
             ELSE IF ExitCatches(error)
             THEN [ExitRun(Tail(plan)) EXCEPT !.steps = <<Head(plan)>> \o @,
                                              !.warnings = @ + 1]
             ELSE [steps |-> <<Head(plan)>>, warnings |-> 0, error |-> error]

\* ExifTool.__exit__
Exit(c) ==
    /\ call[c].pc = "ready"
    /\ IF ExitNotEntered
       THEN /\ call' = [call EXCEPT ![c] = Returned([IdleCall EXCEPT !.op = "exit"])]
            /\ UNCHANGED <<worker, stdin_closed, stdout_closed, stderr_closed,
                           stdin_dirty, shutdown_sent, pending, emitted, out,
                           stderr_pipe, owner>>
       ELSE LET run == ExitRun(ExitPlan)
                did(step) == step \in Range(run.steps)
                c0 == [IdleCall EXCEPT !.op = "exit",
                                       !.entered = TRUE,
                                       !.open = (~stdin_closed /\ ~stdout_closed),
                                       !.steps = run.steps,
                                       !.exit_warnings = run.warnings]
            IN  /\ shutdown_sent' = (shutdown_sent \/ (did("write") /\ WriteError = "none"))
                /\ stdin_closed' = (stdin_closed \/ did("close_stdin"))
                /\ stdout_closed' = (stdout_closed \/ did("close_stdout"))
                /\ stderr_closed' = (stderr_closed \/ did("close_stderr"))
                /\ stdin_dirty' = (/\ ~did("close_stdin")
                                   /\ (stdin_dirty \/ WriteError = "BrokenPipeError"))
                /\ worker' = IF did("terminate") THEN "exited" ELSE worker
                /\ pending' = IF did("terminate") THEN 0 ELSE pending
                /\ emitted' = IF did("terminate") THEN 0 ELSE emitted
                /\ out' = IF did("close_stdout") THEN <<>> ELSE out
                /\ stderr_pipe' = IF did("close_stderr") THEN 0 ELSE stderr_pipe
                /\ owner' = [queue |-> IF did("terminate") THEN <<>> ELSE owner.queue,
                             out |-> IF did("close_stdout") THEN <<>> ELSE owner.out]
                /\ call' = [call EXCEPT ![c] =
                               IF run.error = "none" THEN Returned(c0)
                               ELSE Raised(c0, run.error)]
    /\ UNCHANGED <<target_tags, process, spawned, calls, now>>
    /\ UNCHANGED <<driver, resolveVars>>

(***************************************************************************)
(* ExifTool.execute_on_files.                                              *)
(***************************************************************************)
\* if self.__process is None
NotEntered == process = None

\* not self.__process.stdin or not self.__process.stdout: Popen was given
\* PIPE for both, so both are file objects, and a file object is truthy
\* whether it is open or closed
NoStreams == FALSE

IsEmptyBatchNever(file_paths_list) == FALSE

\* if not file_paths_list
IsEmptyBatch(file_paths_list) == file_paths_list = <<>>

\* exists_list = list(map(os.path.exists, file_paths_list))
ExistsList(file_paths_list) ==
    [i \in DOMAIN file_paths_list |-> Exists(file_paths_list[i])]

\* the loop over zip(file_paths_list, exists_list) collecting existing_paths
RECURSIVE ExistingPaths(_, _)
ExistingPaths(file_paths_list, exists_list) ==
    IF file_paths_list = <<>> THEN <<>>
    ELSE (IF Head(exists_list) THEN <<Head(file_paths_list)>> ELSE <<>>)
         \o ExistingPaths(Tail(file_paths_list), Tail(exists_list))

\* the same loop's else branch: one "File not found." warning per missing path
RECURSIVE MissingPaths(_, _)
MissingPaths(file_paths_list, exists_list) ==
    IF file_paths_list = <<>> THEN <<>>
    ELSE (IF Head(exists_list) THEN <<>> ELSE <<Head(file_paths_list)>>)
         \o MissingPaths(Tail(file_paths_list), Tail(exists_list))

AllMissingNever(existing_paths) == FALSE

\* if not existing_paths
AllMissing(existing_paths) == existing_paths = <<>>

\* the two writes, as the lines of the text written:
\* '\n'.join(existing_paths) + '\n', then '-execute\n'
BatchLines(existing_paths) ==
    Concat([i \in DOMAIN existing_paths |-> PathLines(existing_paths[i])])
    \o <<ExecuteDirective>>

\* do_print_progress = progress_print_period_sec != float('inf')
DoPrintProgress(period) == ~period.inf

IsEndOfStreamNever(line) == FALSE

\* if line == ''
IsEndOfStream(line) == line = EndOfStream

\* if line.strip() == '{ready}'
IsSentinel(line) == Strip(line) = <<READY>>

\* got_tags_set: the union of the keys of the decoded records
GotTags(result_list) == UNION {Keys(result_list[i]) : i \in DOMAIN result_list}

\* one warning per target tag that is not in got_tags_set, in tuple order
RECURSIVE MissingTags(_, _)
MissingTags(tags, got) ==
    IF tags = <<>> THEN <<>>
    ELSE (IF Head(tags) \in got THEN <<>> ELSE <<Head(tags)>>)
         \o MissingTags(Tail(tags), got)

\* the comprehension with pop() in place of pop(0)
RECURSIVE ReexpandPopLast(_, _)
ReexpandPopLast(exists_list, result_list) ==
    IF exists_list = <<>> THEN <<>>
    ELSE IF Head(exists_list)
         THEN <<result_list[Len(result_list)]>>
              \o ReexpandPopLast(Tail(exists_list),
                                 SubSeq(result_list, 1, Len(result_list) - 1))
         ELSE <<NoData>> \o ReexpandPopLast(Tail(exists_list), result_list)

\* [result_list.pop(0) if _exists else None for _exists in exists_list]
RECURSIVE Reexpand(_, _)
Reexpand(exists_list, result_list) ==
    IF exists_list = <<>> THEN <<>>
    ELSE IF Head(exists_list)
         THEN <<Head(result_list)>> \o Reexpand(Tail(exists_list), Tail(result_list))
         ELSE <<NoData>> \o Reexpand(Tail(exists_list), result_list)

\* pop(0) on an empty list raises IndexError
PopFails(exists_list, result_list) ==
    Cardinality({i \in DOMAIN exists_list : exists_list[i]}) > Len(result_list)

DecodeFailsNever(dec) == FALSE

\* except json.decoder.JSONDecodeError
DecodeFails(dec) == ~dec.ok

\* the part of execute_on_files after the reading loop
Finish(c0) ==
    LET c1 == [c0 EXCEPT !.final_logs = IF DoPrintProgress(c0.period) THEN 1 ELSE 0]
        dec == JsonLoads(Concat(c1.lines_list))
    IN  IF DecodeFails(dec) THEN Raised(c1, "MalformedOutput")
        ELSE IF dec.kind = "dict"
        THEN \* iterating a dict yields its keys, which are strings
             IF target_tags # <<>> /\ Keys(dec.items[1]) # {}
             THEN Raised(c1, "AttributeError")
             ELSE Raised(c1, "KeyError")
        ELSE LET c2 == [c1 EXCEPT
                           !.result_list = dec.items,
                           !.missing_warnings =
                               IF target_tags # <<>>
                               THEN MissingTags(target_tags, GotTags(dec.items))
                               ELSE <<>>]
             IN  IF PopFails(c2.exists_list, dec.items)
                 THEN Raised(c2, "IndexError")
                 ELSE Returned([c2 EXCEPT
                                   !.result = Reexpand(c2.exists_list, dec.items)])

\* execute_on_files up to the first readline(), called with one of the given
\* path lists and periods by a caller whose execute_on_files calls just
\* before raised the errors prior
ExecBeginWith(c, batches, periods, prior) ==
    /\ call[c].pc = "ready"
    /\ calls < MaxCalls
    /\ calls' = calls + 1
    /\ \E fpl \in batches, per \in periods :
         LET c0 == [IdleCall EXCEPT !.op = "execute", !.file_paths_list = fpl,
                                    !.period = per,
                                    !.prior = prior,
                                    !.number = calls + 1,
                                    !.entered = (process # None),
                                    !.open = (process # None /\ ~stdin_closed
                                              /\ ~stdout_closed)]
             ex == ExistsList(fpl)
             existing == ExistingPaths(fpl, ex)
             c1 == [c0 EXCEPT !.exists_list = ex, !.masked = TRUE,
                              !.notfound_warnings = MissingPaths(fpl, ex)]
         IN  IF NotEntered
             THEN /\ call' = [call EXCEPT ![c] = Raised(c0, "NotOpen")]
                  /\ UNCHANGED <<pending, stdin_dirty, owner>>
             ELSE IF NoStreams
             THEN /\ call' = [call EXCEPT ![c] = Raised(c0, "NoStreamConnection")]
                  /\ UNCHANGED <<pending, stdin_dirty, owner>>
             ELSE IF IsEmptyBatch(fpl)
             THEN /\ call' = [call EXCEPT ![c] = Returned(c0)]
                  /\ UNCHANGED <<pending, stdin_dirty, owner>>
             ELSE IF AllMissing(existing)
             THEN /\ call' = [call EXCEPT ![c] = Raised(c1, "AllFilesMissing")]
                  /\ UNCHANGED <<pending, stdin_dirty, owner>>
             ELSE IF WriteError # "none"
             THEN /\ call' = [call EXCEPT ![c] = Raised(c1, WriteError)]
                  /\ stdin_dirty' = (stdin_dirty \/ WriteError = "BrokenPipeError")
                  /\ UNCHANGED <<pending, owner>>
             ELSE /\ call' = [call EXCEPT ![c] =
                                 [c1 EXCEPT !.pc = "reading",
                                            !.written = BatchLines(existing),
                                            !.flushed = TRUE,
                                            !.started_time = now,
                                            !.target_seconds_elapsed = per.sec]]
                  /\ pending' = pending + 1
                  /\ owner' = [owner EXCEPT !.queue = Append(@, <<c, calls + 1>>)]
                  /\ UNCHANGED stdin_dirty
    /\ UNCHANGED <<target_tags, process, spawned, worker, stdin_closed,
                   stdout_closed, stderr_closed, shutdown_sent, emitted, out,
                   stderr_pipe, now>>
    /\ UNCHANGED <<driver, resolveVars>>

\* execute_on_files up to the first readline()
ExecBegin(c, periods) == ExecBeginWith(c, SeqsUpTo(Paths, MaxPaths), periods, {})

ProgressDueAlways(c0) == TRUE

\* time.monotonic() >= started_time + target_seconds_elapsed
ProgressDue(c0) == now >= c0.started_time + c0.target_seconds_elapsed

\* one turn of the reading loop: a line that is neither the end of the stream
\* nor the sentinel is accumulated
Accumulate(c0, line) ==
    LET log == DoPrintProgress(c0.period) /\ ProgressDue(c0)
    IN  [c0 EXCEPT
            !.lines_list = Append(@, line),
            !.files_processed = @ + CountBrace(line),
            !.target_seconds_elapsed = IF log THEN @ + c0.period.sec ELSE @,
            !.progress_logs = IF log THEN @ + 1 ELSE @]

\* what the loop does with the line readline() returned
OnLine(c0, line) ==
    IF IsEndOfStream(line) THEN Raised(c0, "WorkerTerminatedUnexpectedly")
    ELSE IF IsSentinel(line) THEN Finish(c0)
    ELSE Accumulate(c0, line)

\* line = self.__process.stdout.readline(), and the loop body; readline()
\* blocks while the pipe is empty and the worker still holds its end
ReadLine(c) ==
    /\ call[c].pc = "reading"
    /\ LET line == IF out # <<>> THEN Head(out) ELSE EndOfStream
           c0 == [call[c] EXCEPT !.reads = @ + 1, !.last_line = line,
                                 !.foreign = (@ \/ (out # <<>> /\ Head(owner.out)[1] # c))]
       IN  IF stdout_closed
           THEN /\ call' = [call EXCEPT ![c] = Raised(call[c], "ValueError")]
                /\ UNCHANGED <<out, owner>>
           ELSE IF out # <<>>
           THEN /\ call' = [call EXCEPT ![c] = OnLine(c0, line)]
                /\ out' = Tail(out)
                /\ owner' = [owner EXCEPT !.out = Tail(@)]
           ELSE /\ ~WorkerAlive
                /\ call' = [call EXCEPT ![c] = OnLine(c0, line)]
                /\ UNCHANGED <<out, owner>>
    /\ UNCHANGED <<target_tags, process, spawned, worker, stdin_closed,
                   stdout_closed, stderr_closed, stdin_dirty, shutdown_sent,
                   pending, emitted, stderr_pipe, calls, now>>
    /\ UNCHANGED <<driver, resolveVars>>

(***************************************************************************)
(* The worker process: the environment.  It answers a request it has       *)
(* received with any lines, ends its answer with the line {ready}, and may *)
(* exit at any moment.  The pipe holds one line: the worker writes the     *)
(* next one when the reader has taken it.                                  *)
(***************************************************************************)
WorkerEmit ==
    /\ worker = "running"
    /\ pending > 0
    /\ out = <<>>
    /\ \E line \in WorkerLines :
         /\ line = LineReady \/ emitted < MaxOut
         /\ out' = Append(out, line)
         /\ owner' = [queue |-> IF line = LineReady THEN Tail(owner.queue)
                                 ELSE owner.queue,
                      out |-> Append(owner.out, Head(owner.queue))]
         /\ IF line = LineReady
            THEN pending' = pending - 1 /\ emitted' = 0
            ELSE emitted' = emitted + 1 /\ UNCHANGED pending
    /\ UNCHANGED <<target_tags, process, spawned, worker, stdin_closed,
                   stdout_closed, stderr_closed, stdin_dirty, shutdown_sent,
                   stderr_pipe, calls, now, call>>
    /\ UNCHANGED <<driver, resolveVars>>

WorkerExit ==
    /\ WorkerAlive
    /\ worker' = "exited"
    /\ pending' = 0
    /\ emitted' = 0
    /\ owner' = [owner EXCEPT !.queue = <<>>]
    /\ UNCHANGED <<target_tags, process, spawned, stdin_closed, stdout_closed,
                   stderr_closed, stdin_dirty, shutdown_sent, out, stderr_pipe,
                   calls, now, call>>
    /\ UNCHANGED <<driver, resolveVars>>

\* the worker writes a line of diagnostics to its stderr; the pipe being full,
\* the write waits for a reader to make room
WorkerStderr ==
    /\ worker = "running"
    /\ IF stderr_pipe < PipeCapacity
       THEN stderr_pipe' = stderr_pipe + 1 /\ UNCHANGED worker
       ELSE worker' = "blocked" /\ UNCHANGED stderr_pipe
    /\ UNCHANGED <<target_tags, process, spawned, stdin_closed, stdout_closed,
                   stderr_closed, stdin_dirty, shutdown_sent, pending, emitted,
                   out, owner, calls, now, call>>
    /\ UNCHANGED <<driver, resolveVars>>

(***************************************************************************)
(* DatetimeKeyValue.get_datetime_value_by_key.                             *)
(***************************************************************************)
Nothing == [some |-> FALSE]

Some(v) == [some |-> TRUE, v |-> v]

Naive == [kind |-> "naive", name |-> ""]

FixedOffset(off) == [kind |-> "offset", name |-> off]

ZoneInfo(zone) == [kind |-> "zone", name |-> zone]

\* cls(key=None, raw_value=None, datetime_value=None)
EmptyCandidate == [key |-> Nothing, raw_value |-> Nothing, datetime_value |-> Nothing]

\* cls(key=target_key, raw_value=raw_value, datetime_value=dt)
Candidate(target_key, raw_value, dt) ==
    [key |-> Some(target_key), raw_value |-> Some(raw_value), datetime_value |-> Some(dt)]

\* each_dict.get(target_key): None for a missing key and for a JSON null
Get(each_dict, target_key) ==
    IF each_dict.tags[target_key] \in {Absent, Null}
    THEN Nothing ELSE Some(each_dict.tags[target_key])

\* __RE_EXIFDATE_FORMAT.sub(r'\1-\2-\3', raw_value): rewrites a YYYY:MM:DD
\* date to YYYY-MM-DD; re raises TypeError for a value that is not a string
ExifDateSub(raw_value) ==
    IF raw_value.kind # "str" THEN [ok |-> FALSE, error |-> "TypeError", v |-> raw_value]
    ELSE IF raw_value.form \in {"datetime", "zerodate"} /\ raw_value.sep = ":"
    THEN [ok |-> TRUE, error |-> "none", v |-> [raw_value EXCEPT !.sep = "-"]]
    ELSE [ok |-> TRUE, error |-> "none", v |-> raw_value]

\* the default of dateutil's parser: datetime.datetime.now() at 00:00:00
HoursPerDay == 24

DefaultDatetime == HoursPerDay * today

\* dateutil.parser.parse(adjusted_value): a datetime, aware when the string
\* carries an offset, the fields the string does not give being taken from
\* the default, today at midnight; ParserError for a string that is no date
\* or makes an invalid date; OverflowError for a number beyond the C integer
\* range
DateutilParse(adjusted_value) ==
    IF adjusted_value.form = "datetime" /\ adjusted_value.sep = "-"
    THEN [ok |-> TRUE, error |-> "none",
          dt |-> [wall |-> adjusted_value.wall,
                  tzinfo |-> IF adjusted_value.off = "none" THEN Naive
                             ELSE FixedOffset(adjusted_value.off)]]
    ELSE IF adjusted_value.form = "time"
    THEN [ok |-> TRUE, error |-> "none",
          dt |-> [wall |-> DefaultDatetime + adjusted_value.wall, tzinfo |-> Naive]]
    ELSE IF adjusted_value.form = "digits"
    THEN [ok |-> FALSE, error |-> "OverflowError", dt |-> [wall |-> 0, tzinfo |-> Naive]]
    ELSE [ok |-> FALSE, error |-> "ParserError", dt |-> [wall |-> 0, tzinfo |-> Naive]]

\* except dateutil.parser.ParserError
IsCaught(error) == error = "ParserError"

AttachTimezoneAlways(dt, zone) == [dt EXCEPT !.tzinfo = ZoneInfo(zone)]

\* if dt.tzinfo is None: dt = dt.replace(tzinfo=default_timezone)
AttachTimezone(dt, zone) ==
    IF dt.tzinfo = Naive THEN [dt EXCEPT !.tzinfo = ZoneInfo(zone)] ELSE dt

\* the loop over target_key_list for one record, with its else clause
RECURSIVE ScanKeys(_, _, _)
ScanKeys(each_dict, keys, zone) ==
    IF keys = <<>> THEN [error |-> "none", cand |-> EmptyCandidate]
    ELSE LET target_key == Head(keys)
             raw_value == Get(each_dict, target_key)
         IN  IF ~raw_value.some THEN ScanKeys(each_dict, Tail(keys), zone)
             ELSE LET adjusted == ExifDateSub(raw_value.v)
                  IN  IF ~adjusted.ok
                      THEN [error |-> adjusted.error, cand |-> EmptyCandidate]
                      ELSE LET parsed == DateutilParse(adjusted.v)
                           IN  IF parsed.ok
                               THEN [error |-> "none",
                                     cand |-> Candidate(target_key, raw_value.v,
                                                  AttachTimezone(parsed.dt, zone))]
                               ELSE IF IsCaught(parsed.error)
                               THEN ScanKeys(each_dict, Tail(keys), zone)
                               ELSE [error |-> parsed.error, cand |-> EmptyCandidate]

\* the body of the loop over dict_list
ResolveOne(each_dict, keys, zone) ==
    IF each_dict = NoData THEN [error |-> "none", cand |-> EmptyCandidate]
    ELSE ScanKeys(each_dict, keys, zone)

\* the loop over dict_list: an exception leaves the loop and the function
RECURSIVE ResolveAll(_, _, _, _)
ResolveAll(dicts, keys, zone, acc) ==
    IF dicts = <<>> THEN [outcome |-> "returned", error |-> "none", list |-> acc]
    ELSE LET one == ResolveOne(Head(dicts), keys, zone)
         IN  IF one.error # "none"
             THEN [outcome |-> "raised", error |-> one.error, list |-> acc]
             ELSE ResolveAll(Tail(dicts), keys, zone, Append(acc, one.cand))

GetDatetimeValueByKey(dicts, keys, zone) == ResolveAll(dicts, keys, zone, <<>>)

NotResolved == [outcome |-> "none", error |-> "none", list |-> <<>>]

\* the records a longer dict_list is drawn from
ListPool ==
    {NoData,
     Rec1,
     Dict([t \in Tags |-> IF t = "A" THEN Words ELSE IF t = "B" THEN IsoOffset ELSE Absent]),
     Dict([t \in Tags |-> Absent]),
     Dict([t \in Tags |-> IF t = "A" THEN Number ELSE IF t = "B" THEN ExifNaive ELSE Absent])}

DictLists == {<<Dict(r)>> : r \in Records} \cup SeqsUpTo(ListPool, MaxRecords)

Resolve ==
    /\ resolved = NotResolved
    /\ resolved' = GetDatetimeValueByKey(dict_list, target_key_list, default_timezone)
    /\ UNCHANGED <<dict_list, target_key_list, default_timezone, today,
                   resolved_again, display_timezone, unix_column>>
    /\ UNCHANGED <<driver, sessionVars>>

NotProjected == [outcome |-> "none", error |-> "none", list |-> <<>>]

\* the driver program is not part of the run
NoDriver == [program |-> "none", pc |-> "start", body |-> "none"]

FirstDay == 4

ResolveIdle ==
    /\ dict_list = <<>>
    /\ target_key_list = <<>>
    /\ default_timezone = "UTC"
    /\ resolved = NotResolved
    /\ today = FirstDay
    /\ resolved_again = NotResolved
    /\ display_timezone = "UTC"
    /\ unix_column = NotProjected

Init == SessionInit /\ ResolveIdle /\ driver = NoDriver

Next ==
    \/ Enter("c1")
    \/ Exit("c1")
    \/ ExecBegin("c1", {Inf})
    \/ ReadLine("c1")
    \/ WorkerEmit
    \/ WorkerExit

Spec == Init /\ [][Next]_vars

ResolveInit ==
    /\ SessionInit
    /\ target_tags = <<>>
    /\ driver = NoDriver
    /\ dict_list \in DictLists
    /\ target_key_list \in SeqsUpTo(Tags, MaxKeys)
    /\ default_timezone \in Zones
    /\ resolved = NotResolved
    /\ today = FirstDay
    /\ resolved_again = NotResolved
    /\ display_timezone = "UTC"
    /\ unix_column = NotProjected

\* a run whose target_tags may name a tag twice: the constructor takes any
\* tuple of strings
TagsInit ==
    /\ target_tags \in {<<>>, <<"A", "C">>, <<"C", "A", "C">>}
    /\ SessionStart
    /\ ResolveIdle
    /\ driver = NoDriver

TagsSpec == TagsInit /\ [][Next]_vars

\* two callers share one session: each may call execute_on_files while the
\* other's call is reading; nothing in the class orders them
ConcurrentInit ==
    /\ target_tags = <<>>
    /\ SessionStart
    /\ ResolveIdle
    /\ driver = NoDriver

\* the batch each of the two callers submits
OwnBatch(c) == IF c = "c1" THEN <<"e1">> ELSE <<"m1", "e2">>

ExecShared(c) == ExecBeginWith(c, {OwnBatch(c)}, {Inf}, {})

ConcurrentNext ==
    \/ Enter("c1")
    \/ ExecShared("c1")
    \/ ExecShared("c2")
    \/ ReadLine("c1")
    \/ ReadLine("c2")
    \/ WorkerEmit
    \/ WorkerExit

ConcurrentSpec == ConcurrentInit /\ [][ConcurrentNext]_vars

\* one caller makes one execute_on_files call after another on a session it
\* does not close; each call records the errors of the calls before it
PriorErrors(k) ==
    IF k.op = "execute"
    THEN k.prior \cup (IF k.outcome = "raised" THEN {k.error} ELSE {})
    ELSE {}

\* the batches the caller submits: no path, missing paths only, existing
\* paths, both
RetryBatches == {<<>>, <<"m1">>, <<"m1", "m1">>, <<"e1">>, <<"m1", "e2">>}

ExecRetry(c) == ExecBeginWith(c, RetryBatches, {Inf}, PriorErrors(call[c]))

RetryNext ==
    \/ Enter("c1")
    \/ ExecRetry("c1")
    \/ ReadLine("c1")
    \/ WorkerEmit
    \/ WorkerExit

RetrySpec == ConcurrentInit /\ [][RetryNext]_vars

\* one caller submits batches whose paths may hold a newline character
SubmitBatches == SeqsUpTo(Paths \cup {NewlinePath}, MaxPaths)

ExecSubmit(c) == ExecBeginWith(c, SubmitBatches, {Inf}, {})

SubmitNext ==
    \/ Enter("c1")
    \/ ExecSubmit("c1")
    \/ ReadLine("c1")
    \/ WorkerEmit
    \/ WorkerExit

SubmitSpec == ConcurrentInit /\ [][SubmitNext]_vars

\* time.monotonic() advances by a second
Tick ==
    /\ now < MaxTime
    /\ now' = now + 1
    /\ UNCHANGED <<target_tags, process, spawned, worker, stdin_closed,
                   stdout_closed, stderr_closed, stdin_dirty, shutdown_sent,
                   pending, emitted, out, stderr_pipe, owner, calls, call>>
    /\ UNCHANGED <<driver, resolveVars>>

\* EXIFTOOL_PROGRESS_PRINT_PERIOD_SECONDS: a NonNegativeFloat, Inf by default
ProgressPeriods == {Inf, Seconds(0), Seconds(1), Seconds(2)}

\* one caller has one file read while time passes
ExecProgress(c) == ExecBeginWith(c, {<<"e1">>}, ProgressPeriods, {})

ProgressNext ==
    \/ Enter("c1")
    \/ ExecProgress("c1")
    \/ ReadLine("c1")
    \/ WorkerEmit
    \/ WorkerExit
    \/ Tick

ProgressSpec == ConcurrentInit /\ [][ProgressNext]_vars

\* one caller has one file read by a worker that also writes to its stderr
StderrNext ==
    \/ Enter("c1")
    \/ ExecShared("c1")
    \/ ReadLine("c1")
    \/ WorkerEmit
    \/ WorkerStderr
    \/ WorkerExit

StderrSpec == ConcurrentInit /\ [][StderrNext]_vars

\* the same call a second time, with the same arguments
ResolveAgain ==
    /\ resolved # NotResolved
    /\ resolved_again = NotResolved
    /\ resolved_again' = GetDatetimeValueByKey(dict_list, target_key_list, default_timezone)
    /\ UNCHANGED <<dict_list, target_key_list, default_timezone, resolved, today,
                   display_timezone, unix_column>>
    /\ UNCHANGED <<driver, sessionVars>>

\* the clock passes midnight: datetime.datetime.now() is on the next day
Midnight ==
    /\ today < FirstDay + MaxDays
    /\ today' = today + 1
    /\ UNCHANGED <<dict_list, target_key_list, default_timezone, resolved,
                   resolved_again, display_timezone, unix_column>>
    /\ UNCHANGED <<driver, sessionVars>>

TwiceNext ==
    \/ Resolve
    \/ ResolveAgain
    \/ Midnight

TwiceSpec == ResolveInit /\ [][TwiceNext]_vars

(***************************************************************************)
(* The DATETIME_LOCAL_UNIX column of the driver program: each resolved     *)
(* instant is converted to the display timezone, its wall-clock reading is *)
(* taken as if it were UTC, and the seconds since the epoch are printed    *)
(* with six decimals.                                                      *)
(***************************************************************************)
MinWall == 0        \* datetime.min, 0001-01-01 00:00

MaxWall == 400      \* datetime.max, 9999-12-31 23:59

EpochWall == 50     \* 1970-01-01 00:00

DstStart == 150     \* the UTC reading at which Europe/London goes to summer time

MinDate == Str("datetime", ":", MinWall, "none")   \* "0001:01:01 00:00:00"

MaxDate == Str("datetime", ":", MaxWall, "none")   \* "9999:12:31 23:59:59"

IsoUtc == Str("datetime", "-", 100, "+00:00")      \* "2022-01-02T03:04:05+00:00"

DisplayZones == Zones \cup {"Europe/London"}

\* the offset of a zone at a UTC reading
OffsetAt(name, utc) ==
    IF name \in {"Asia/Tokyo", "+09:00"} THEN 9
    ELSE IF name = "Europe/London" /\ utc >= DstStart THEN 1
    ELSE 0

\* dt.utcoffset(): the offset of the zone of dt at its own wall-clock reading
UtcOffset(dt) ==
    IF dt.tzinfo.name = "Europe/London"
    THEN (IF dt.wall > DstStart THEN 1 ELSE 0)
    ELSE OffsetAt(dt.tzinfo.name, dt.wall)

\* a datetime holds the years 1 to 9999
InRange(wall) == MinWall <= wall /\ wall <= MaxWall

\* dt.astimezone(tz): nothing to do when tz is the tzinfo of dt; otherwise
\* utc = dt - offset, then tz.fromutc(utc); either step raises OverflowError
\* when it leaves the range of datetime
AsTimezone(dt, zone) ==
    IF dt.tzinfo = ZoneInfo(zone) THEN [ok |-> TRUE, error |-> "none", dt |-> dt]
    ELSE LET utc == dt.wall - UtcOffset(dt)
             local == utc + OffsetAt(zone, utc)
         IN  IF InRange(utc) /\ InRange(local)
             THEN [ok |-> TRUE, error |-> "none",
                   dt |-> [wall |-> local, tzinfo |-> ZoneInfo(zone)]]
             ELSE [ok |-> FALSE, error |-> "OverflowError", dt |-> dt]

\* f'{x:.6f}' of a whole number of seconds
Format6f(x) == [units |-> x, decimals |-> <<0, 0, 0, 0, 0, 0>>]

\* l_obj.replace(tzinfo=datetime.timezone.utc).timestamp()
TimestampAsUtc(l_obj) == l_obj.wall - EpochWall

\* one entry of the column: the two comprehensions of lines 660-677
LocalUnix(dt, zone) ==
    Some(Format6f(TimestampAsUtc([AsTimezone(dt, zone).dt EXCEPT !.tzinfo = Naive])))

\* the column; an exception in a comprehension is logged and ends the
\* program with sys.exit(1)
RECURSIVE LocalUnixList(_, _, _)
LocalUnixList(cands, zone, acc) ==
    IF cands = <<>> THEN [outcome |-> "written", error |-> "none", list |-> acc]
    ELSE LET dv == Head(cands).datetime_value
         IN  IF ~dv.some
             THEN LocalUnixList(Tail(cands), zone, Append(acc, Nothing))
             ELSE IF ~AsTimezone(dv.v, zone).ok
             THEN [outcome |-> "exit", error |-> AsTimezone(dv.v, zone).error,
                   list |-> <<>>]
             ELSE LocalUnixList(Tail(cands), zone, Append(acc, LocalUnix(dv.v, zone)))

Project ==
    /\ resolved.outcome = "returned"
    /\ unix_column = NotProjected
    /\ unix_column' = LocalUnixList(resolved.list, display_timezone, <<>>)
    /\ UNCHANGED <<dict_list, target_key_list, default_timezone, resolved, today,
                   resolved_again, display_timezone>>
    /\ UNCHANGED <<driver, sessionVars>>

\* the records of a run that writes the column
ProjectPool ==
    {NoData, Rec1, Rec2,
     Dict([t \in Tags |-> IF t = "A" THEN IsoUtc ELSE Absent]),
     Dict([t \in Tags |-> IF t = "A" THEN Words ELSE Absent]),
     Dict([t \in Tags |-> IF t = "A" THEN MinDate ELSE Absent]),
     Dict([t \in Tags |-> IF t = "A" THEN MaxDate ELSE Absent])}

ProjectInit ==
    /\ SessionInit
    /\ target_tags = <<>>
    /\ driver = NoDriver
    /\ dict_list \in SeqsUpTo(ProjectPool, MaxRecords)
    /\ target_key_list \in {<<"A">>, <<"B", "A">>}
    /\ default_timezone \in Zones
    /\ resolved = NotResolved
    /\ today = FirstDay
    /\ resolved_again = NotResolved
    /\ display_timezone \in DisplayZones
    /\ unix_column = NotProjected

ProjectNext ==
    \/ Resolve
    \/ Project

ProjectSpec == ProjectInit /\ [][ProjectNext]_vars

ResolveNext == Resolve

ResolveSpec == ResolveInit /\ [][ResolveNext]_vars

(***************************************************************************)
(* The driver programs.  Both run one batch inside a with statement:       *)
(*     with ExifTool(tags) as _exiftool:                                   *)
(*         exiftool_result_list = _exiftool.execute_on_files(paths, period)*)
(* extract_image_taken_datetime.py wraps it in try/except Exception and    *)
(* calls sys.exit(1) on an error; read_exiftool_values_of_files.py lets    *)
(* the error end the program.  driver.pc is where the program stands, and  *)
(* driver.body how the body of the with statement ended.                   *)
(***************************************************************************)
Programs == {"extract_image_taken_datetime", "read_exiftool_values_of_files"}

WithExitsOnReturn(outcome) == outcome = "returned"

\* the with statement calls __exit__ when its body returns and when it raises
WithExits(outcome) == outcome \in {"returned", "raised"}

DriverInit ==
    /\ SessionInit
    /\ ResolveIdle
    /\ driver \in {[program |-> p, pc |-> "start", body |-> "none"] : p \in Programs}

driverFrame == <<sessionVars, resolveVars>>

\* the program reaches the with statement; ExifTool(...) is constructed
DriverStart ==
    /\ driver.pc = "start"
    /\ driver' = [driver EXCEPT !.pc = "with"]
    /\ UNCHANGED driverFrame

\* the with statement calls __enter__
DriverEnter ==
    /\ driver.pc = "with"
    /\ call["c1"].op = "none"
    /\ Enter("c1")

\* the body calls execute_on_files
DriverExecute ==
    /\ driver.pc = "with"
    /\ call["c1"].op = "enter"
    /\ call["c1"].outcome = "returned"
    /\ ExecBegin("c1", {Inf})

\* execute_on_files reads the worker's answer
DriverReadLine ==
    /\ driver.pc = "with"
    /\ ReadLine("c1")

\* execute_on_files has returned or raised: control leaves the body
DriverLeave ==
    /\ driver.pc = "with"
    /\ call["c1"].op = "execute"
    /\ call["c1"].pc = "ready"
    /\ driver' = [driver EXCEPT !.pc = "leaving", !.body = call["c1"].outcome]
    /\ UNCHANGED driverFrame

\* the with statement calls __exit__
DriverExit ==
    /\ driver.pc = "leaving"
    /\ call["c1"].op = "execute"
    /\ WithExits(driver.body)
    /\ Exit("c1")

\* after the with statement: the program goes on with the result, or the
\* error ends it (sys.exit(1) in the except clause, or the uncaught error)
DriverEnd ==
    /\ driver.pc = "leaving"
    /\ call["c1"].op = "exit" \/ ~WithExits(driver.body)
    /\ driver' = [driver EXCEPT
                     !.pc = IF driver.body = "returned" THEN "continued"
                            ELSE "terminated"]
    /\ UNCHANGED driverFrame

DriverNext ==
    \/ DriverStart
    \/ DriverEnter
    \/ DriverExecute
    \/ DriverReadLine
    \/ DriverLeave
    \/ DriverExit
    \/ DriverEnd
    \/ WorkerEmit
    \/ WorkerExit

DriverSpec == DriverInit /\ [][DriverNext]_vars

(***************************************************************************)
(* Properties of execute_on_files and of the session, checked under Spec.  *)
(***************************************************************************)
\* how many of the first i paths exist
ExistsCount(file_paths_list, i) ==
    Cardinality({j \in 1..i : Exists(file_paths_list[j])})

\* C1: when the worker answers a batch of N paths with one record per path
\* sent, execute_on_files returns N entries, entry i is None iff path i does
\* not exist, and the k-th existing path holds the worker's k-th record.
C1_OrderAndLengthPreserved ==
    \A c \in Callers :
        LET k == call[c]
            fpl == k.file_paths_list
            dec == JsonLoads(Concat(k.lines_list))
        IN  (/\ k.op = "execute" /\ k.pc = "ready" /\ k.flushed
             /\ k.reads > 0 /\ k.last_line = LineReady
             /\ dec.ok /\ dec.kind = "list"
             /\ Len(dec.items) = ExistsCount(fpl, Len(fpl)))
            => /\ k.outcome = "returned"
               /\ Len(k.result) = Len(fpl)
               /\ \A i \in DOMAIN fpl :
                      IF Exists(fpl[i])
                      THEN /\ k.result[i] # NoData
                           /\ k.result[i] = dec.items[ExistsCount(fpl, i)]
                      ELSE k.result[i] = NoData

C1_Witness ==
    \E c \in Callers :
        /\ call[c].op = "execute" /\ call[c].outcome = "returned"
        /\ call[c].last_line = LineReady
        /\ call[c].file_paths_list = <<"m1", "e2">>
        /\ call[c].result = <<NoData, Rec1>>

\* C2: a non-empty batch given to an open session whose paths all do not
\* exist fails with AllFilesMissing and returns no result.
C2_AllFilesMissing ==
    \A c \in Callers :
        LET k == call[c]
        IN  (/\ k.op = "execute" /\ k.open
             /\ k.file_paths_list # <<>>
             /\ \A i \in DOMAIN k.file_paths_list : ~Exists(k.file_paths_list[i]))
            => /\ k.pc = "ready"
               /\ k.outcome = "raised"
               /\ k.error = "AllFilesMissing"
               /\ k.result = <<>>

C2_Witness ==
    \E c \in Callers :
        /\ call[c].op = "execute" /\ call[c].open
        /\ call[c].file_paths_list = <<"m1", "m1">>
        /\ call[c].error = "AllFilesMissing"

\* C3: when readline() meets the end of the stream before a sentinel line,
\* execute_on_files fails with WorkerTerminatedUnexpectedly whatever it has
\* accumulated, and returns no result.
C3_EndOfStreamIsFatal ==
    \A c \in Callers :
        LET k == call[c]
        IN  (k.op = "execute" /\ k.reads > 0 /\ k.last_line = EndOfStream)
            => /\ k.pc = "ready"
               /\ k.outcome = "raised"
               /\ k.error = "WorkerTerminatedUnexpectedly"
               /\ k.result = <<>>

C3_Witness ==
    \E c \in Callers :
        /\ call[c].op = "execute" /\ call[c].reads > 0
        /\ call[c].last_line = EndOfStream
        /\ call[c].lines_list = <<LineArrOne>>
        /\ call[c].error = "WorkerTerminatedUnexpectedly"

\* C4: when the text accumulated before the sentinel does not decode as
\* JSON, execute_on_files fails with MalformedOutput and returns no result.
C4_MalformedOutput ==
    \A c \in Callers :
        LET k == call[c]
        IN  (/\ k.op = "execute" /\ k.pc = "ready" /\ k.reads > 0
             /\ k.last_line = LineReady
             /\ ~JsonLoads(Concat(k.lines_list)).ok)
            => /\ k.outcome = "raised"
               /\ k.error = "MalformedOutput"
               /\ k.result = <<>>

C4_Witness ==
    \E c \in Callers :
        /\ call[c].op = "execute" /\ call[c].last_line = LineReady
        /\ call[c].lines_list = <<LineArrOpen, LineReadyJunk>>
        /\ call[c].error = "MalformedOutput"

\* C5: on an open session execute_on_files with an empty path list returns
\* an empty result at once: it writes nothing to the worker and reads
\* nothing from it.
C5_EmptyBatch ==
    \A c \in Callers :
        LET k == call[c]
        IN  (k.op = "execute" /\ k.open /\ k.file_paths_list = <<>>)
            => /\ k.pc = "ready"
               /\ k.outcome = "returned"
               /\ k.result = <<>>
               /\ k.written = <<>>
               /\ ~k.flushed
               /\ k.reads = 0
               /\ ~k.masked

C5_Witness ==
    \E c \in Callers :
        /\ call[c].op = "execute" /\ call[c].open
        /\ call[c].file_paths_list = <<>>
        /\ call[c].outcome = "returned"

\* C10: __enter__ on a session that is open fails with AlreadyOpen, starts no
\* second worker process and leaves the process handle as it was.
C10_AlreadyOpen ==
    [][\A c \in Callers :
          (/\ call'[c] # call[c]
           /\ call'[c].op = "enter"
           /\ process # None /\ ~stdin_closed /\ ~stdout_closed)
          => /\ call'[c].outcome = "raised"
             /\ call'[c].error = "AlreadyOpen"
             /\ spawned' = spawned
             /\ process' = process
             /\ worker' = worker]_vars

C10_Witness ==
    \E c \in Callers :
        /\ call[c].op = "enter" /\ call[c].error = "AlreadyOpen"
        /\ spawned = 1 /\ worker = "running" /\ ~stdout_closed

\* C11: __exit__ on an entered session attempts its steps in the order
\* write, close stdin, close stdout, close stderr, terminate; a step that
\* fails stops none of the later ones, and __exit__ returns without raising:
\* afterwards the three streams are closed and the worker has exited.
C11_CloseBestEffort ==
    \A c \in Callers :
        LET k == call[c]
        IN  (k.op = "exit" /\ k.entered)
            => /\ k.pc = "ready"
               /\ k.outcome = "returned"
               /\ k.steps = <<"write", "close_stdin", "close_stdout",
                              "close_stderr", "terminate">>
               /\ stdin_closed /\ stdout_closed /\ stderr_closed
               /\ worker = "exited"

\* the write of the directive and the close of stdin both failed
C11_Witness ==
    \E c \in Callers :
        /\ call[c].op = "exit" /\ call[c].entered /\ call[c].open
        /\ call[c].exit_warnings = 2
        /\ call[c].outcome = "returned"
        /\ stdin_closed /\ stdout_closed /\ stderr_closed
        /\ worker = "exited"

\* C12: __exit__ on a session that was entered and closed raises nothing and
\* changes nothing of the session and of the worker process; __exit__ on a
\* session that was never entered does nothing.
C12_CloseIdempotent ==
    [][\A c \in Callers :
          (call'[c] # call[c] /\ call'[c].op = "exit")
          => /\ (/\ process # None /\ worker = "exited"
                 /\ stdin_closed /\ stdout_closed /\ stderr_closed)
                => /\ call'[c].outcome = "returned"
                   /\ UNCHANGED <<process, spawned, worker, stdin_closed,
                                  stdout_closed, stderr_closed, stdin_dirty,
                                  shutdown_sent, pending, emitted, out>>
             /\ process = None
                => /\ call'[c].outcome = "returned"
                   /\ call'[c].steps = <<>>
                   /\ call'[c].exit_warnings = 0
                   /\ UNCHANGED <<process, spawned, worker, stdin_closed,
                                  stdout_closed, stderr_closed, stdin_dirty,
                                  shutdown_sent, pending, emitted, out>>]_vars

\* a second __exit__: it found the streams closed, its write was refused
C12_Witness ==
    \E c \in Callers :
        /\ call[c].op = "exit" /\ call[c].entered /\ ~call[c].open
        /\ call[c].exit_warnings = 1
        /\ call[c].outcome = "returned"
        /\ worker = "exited" /\ stdin_closed

\* C14: execute_on_files called on a session that is not open, never entered
\* or entered and closed, fails with NotOpen or NoStreamConnection before it
\* computes the existence mask and before it writes anything to the worker.
C14_RequiresOpenSession ==
    \A c \in Callers :
        LET k == call[c]
        IN  (k.op = "execute" /\ ~k.open)
            => /\ k.pc = "ready"
               /\ k.outcome = "raised"
               /\ k.error \in {"NotOpen", "NoStreamConnection"}
               /\ ~k.masked
               /\ k.written = <<>>

\* the part of C14 that holds: a session that was never entered
NotOpenWhenNeverEntered ==
    \A c \in Callers :
        LET k == call[c]
        IN  (k.op = "execute" /\ ~k.entered)
            => /\ k.pc = "ready"
               /\ k.outcome = "raised"
               /\ k.error = "NotOpen"
               /\ ~k.masked
               /\ k.written = <<>>

\* how many entries of the sequence s are x
Count(s, x) == Cardinality({i \in DOMAIN s : s[i] = x})

\* the tags that are a key of at least one record of the decoded answer
TagsSeen(items) == {t \in Tags : \E i \in DOMAIN items : items[i].tags[t] # Absent}

\* C15: when the worker answers a batch with one record per path sent,
\* execute_on_files returns, and it has logged exactly one MissingExpectedTag
\* warning for each target tag that is in no record, none for a target tag
\* that is in some record, and none at all when target_tags is empty.
C15_MissingExpectedTag ==
    \A c \in Callers :
        LET k == call[c]
            fpl == k.file_paths_list
            dec == JsonLoads(Concat(k.lines_list))
        IN  (/\ k.op = "execute" /\ k.pc = "ready" /\ k.flushed
             /\ k.reads > 0 /\ k.last_line = LineReady
             /\ dec.ok /\ dec.kind = "list"
             /\ Len(dec.items) = ExistsCount(fpl, Len(fpl)))
            => /\ k.outcome = "returned"
               /\ \A t \in Tags :
                      Count(k.missing_warnings, t)
                          = IF t \in Range(target_tags) /\ t \notin TagsSeen(dec.items)
                            THEN 1 ELSE 0

\* the part of C15 that holds: one warning for each entry of target_tags
\* whose tag is in no record, in the order of the entries
OneWarningPerEntry ==
    \A c \in Callers :
        LET k == call[c]
            fpl == k.file_paths_list
            dec == JsonLoads(Concat(k.lines_list))
        IN  (/\ k.op = "execute" /\ k.pc = "ready" /\ k.flushed
             /\ k.reads > 0 /\ k.last_line = LineReady
             /\ dec.ok /\ dec.kind = "list"
             /\ Len(dec.items) = ExistsCount(fpl, Len(fpl)))
            => /\ k.outcome = "returned"
               /\ k.missing_warnings
                      = Filter(target_tags, Tags \ TagsSeen(dec.items))

(***************************************************************************)
(* Properties of a session shared by two callers, checked under            *)
(* ConcurrentSpec.                                                         *)
(***************************************************************************)
\* C16: one batch is in flight per session: while a call of execute_on_files
\* has written its batch and not yet read its sentinel no other call on the
\* session writes or reads, and no call reads a line the worker wrote in
\* answer to another call's batch.
C16_OneBatchInFlight ==
    /\ Cardinality({c \in Callers : call[c].op = "execute"
                                    /\ call[c].pc = "reading"}) <= 1
    /\ \A c \in Callers : ~call[c].foreign

\* the part of C16 that holds: a caller that has the session to itself reads
\* only the answer to its own batch
NoForeignLineWhenAlone ==
    (call["c2"].op = "none") => ~call["c1"].foreign

\* a call returned as its result the records of the other call's batch
StolenAnswerReached ==
    /\ call["c2"].op = "execute" /\ call["c2"].outcome = "returned"
    /\ call["c2"].foreign
    /\ call["c2"].file_paths_list = <<"m1", "e2">>
    /\ call["c2"].result = <<NoData, Rec1>>
    /\ call["c1"].op = "execute" /\ call["c1"].pc = "reading"
    /\ call["c1"].file_paths_list = <<"e1">>

(***************************************************************************)
(* Properties of successive calls on one session, checked under RetrySpec. *)
(***************************************************************************)
\* the paths of the list that do not exist are all of them
AllPathsMissing(file_paths_list) ==
    /\ file_paths_list # <<>>
    /\ \A i \in DOMAIN file_paths_list : ~Exists(file_paths_list[i])

\* C17: a call of execute_on_files on an open session whose paths all do not
\* exist fails with AllFilesMissing having written nothing to the worker and
\* read nothing from it, and leaves the session as it was; and a call that
\* follows such a failure and is answered with one record per path sent
\* returns the reconciled result: None where the path does not exist, the
\* worker's k-th record at the k-th existing path.
C17_AllFilesMissingPerBatch ==
    [][\A c \in Callers :
          /\ (/\ call'[c] # call[c]
              /\ call'[c].op = "execute"
              /\ call'[c].reads = 0
              /\ call'[c].open
              /\ AllPathsMissing(call'[c].file_paths_list))
             => /\ call'[c].outcome = "raised"
                /\ call'[c].error = "AllFilesMissing"
                /\ call'[c].written = <<>>
                /\ UNCHANGED <<process, spawned, worker, stdin_closed,
                               stdout_closed, stderr_closed, stdin_dirty,
                               shutdown_sent, pending, emitted, out>>
          /\ LET k == call'[c]
                 fpl == k.file_paths_list
                 dec == JsonLoads(Concat(k.lines_list))
             IN  (/\ k.op = "execute" /\ k.pc = "ready"
                  /\ "AllFilesMissing" \in k.prior
                  /\ k.flushed /\ k.reads > 0 /\ k.last_line = LineReady
                  /\ dec.ok /\ dec.kind = "list"
                  /\ Len(dec.items) = ExistsCount(fpl, Len(fpl)))
                 => /\ k.outcome = "returned"
                    /\ Len(k.result) = Len(fpl)
                    /\ \A i \in DOMAIN fpl :
                           IF Exists(fpl[i])
                           THEN k.result[i] = dec.items[ExistsCount(fpl, i)]
                           ELSE k.result[i] = NoData]_vars

\* a batch that follows an AllFilesMissing failure is reconciled
C17_Witness ==
    \E c \in Callers :
        /\ call[c].op = "execute" /\ call[c].outcome = "returned"
        /\ call[c].prior = {"AllFilesMissing"}
        /\ call[c].file_paths_list = <<"m1", "e2">>
        /\ call[c].lines_list = <<LineArrOne>>
        /\ call[c].result = <<NoData, Rec1>>

\* C18: after a call of execute_on_files failed with
\* WorkerTerminatedUnexpectedly or with MalformedOutput, no later call on the
\* session with a non-empty batch returns a result.
C18_UnusableAfterFatalError ==
    \A c \in Callers :
        LET k == call[c]
        IN  (/\ k.op = "execute"
             /\ k.prior \cap {"WorkerTerminatedUnexpectedly", "MalformedOutput"} # {}
             /\ k.file_paths_list # <<>>)
            => k.outcome # "returned"

\* the part of C18 that holds: after WorkerTerminatedUnexpectedly the worker
\* has exited and every later call with a non-empty batch is in error
UnusableAfterWorkerTerminated ==
    \A c \in Callers :
        LET k == call[c]
        IN  (/\ k.op = "execute"
             /\ "WorkerTerminatedUnexpectedly" \in k.prior
             /\ k.file_paths_list # <<>>)
            => /\ k.pc = "ready"
               /\ k.outcome = "raised"

(***************************************************************************)
(* Properties of the driver programs, checked under DriverSpec.            *)
(***************************************************************************)
\* C13: when a driver program has left its with statement, to go on or to
\* terminate, whether execute_on_files returned or raised, __exit__ has run:
\* the worker process the program started is not running and its three
\* streams are closed.
C13_ClosedOnEveryExitPath ==
    driver.pc \in {"continued", "terminated"}
    => /\ call["c1"].op = "exit"
       /\ call["c1"].outcome = "returned"
       /\ spawned = 1
       /\ worker = "exited"
       /\ stdin_closed /\ stdout_closed /\ stderr_closed

\* execute_on_files raised while the worker was running, the program ended
C13_Witness ==
    /\ driver.pc = "terminated"
    /\ driver.body = "raised"
    /\ call["c1"].op = "exit"
    /\ shutdown_sent
    /\ worker = "exited"
    /\ stdin_closed /\ stdout_closed /\ stderr_closed

(***************************************************************************)
(* Properties of get_datetime_value_by_key, checked under ResolveSpec.     *)
(***************************************************************************)
\* a tag that is present with a non-null value that is a date and time
ParsesAt(each_dict, tag) ==
    /\ each_dict.tags[tag] \notin {Absent, Null}
    /\ each_dict.tags[tag].kind = "str"
    /\ each_dict.tags[tag].form \in {"datetime", "time"}

\* the positions of target_key_list whose tag parses in the record
Parsing(each_dict) ==
    {j \in DOMAIN target_key_list : ParsesAt(each_dict, target_key_list[j])}

\* the candidate of record i names the first tag in priority order that
\* parses, with its raw value and an instant; with no such tag it is empty
FirstMatch(i) ==
    LET d == dict_list[i]
        cand == resolved.list[i]
    IN  IF d # NoData /\ Parsing(d) # {}
        THEN LET j == CHOOSE j \in Parsing(d) : \A m \in Parsing(d) : j <= m
             IN  /\ cand.key = Some(target_key_list[j])
                 /\ cand.raw_value = Some(d.tags[target_key_list[j]])
                 /\ cand.datetime_value.some
        ELSE /\ cand.key = Nothing
             /\ cand.raw_value = Nothing
             /\ cand.datetime_value = Nothing

\* C6: for every record and priority list resolve yields a candidate that
\* names the first tag in priority order that is present, non-null and
\* parses, a tag that fails to parse being skipped; when no tag of the list
\* parses its three fields are absent, otherwise all three are present.
C6_FirstMatchWins ==
    resolved.outcome # "none" =>
        /\ resolved.outcome = "returned"
        /\ Len(resolved.list) = Len(dict_list)
        /\ \A i \in DOMAIN dict_list : FirstMatch(i)

\* the part of C6 that holds: every call that returns obeys first match wins
FirstMatchWhenReturned ==
    resolved.outcome = "returned" => \A i \in DOMAIN dict_list : FirstMatch(i)

FirstMatchReached ==
    /\ resolved.outcome = "returned"
    /\ target_key_list = <<"A", "B", "C">>
    /\ Len(dict_list) = 1
    /\ dict_list[1].tags["A"] = Words
    /\ dict_list[1].tags["B"] = IsoOffset
    /\ dict_list[1].tags["C"] = ExifNaive
    /\ resolved.list[1].key = Some("B")

\* C7: every resolved instant is timezone-aware: a value without an offset
\* gets exactly the default timezone, a value with an offset keeps it.
C7_TimezoneAttached ==
    resolved.outcome = "returned" =>
        \A i \in DOMAIN resolved.list :
            LET cand == resolved.list[i]
            IN  cand.datetime_value.some =>
                    /\ cand.datetime_value.v.tzinfo # Naive
                    /\ cand.raw_value.v.form = "datetime"
                           => cand.datetime_value.v.wall = cand.raw_value.v.wall
                    /\ IF cand.raw_value.v.off = "none"
                       THEN cand.datetime_value.v.tzinfo = ZoneInfo(default_timezone)
                       ELSE cand.datetime_value.v.tzinfo
                                = FixedOffset(cand.raw_value.v.off)

C7_Witness ==
    /\ resolved.outcome = "returned"
    /\ default_timezone = "Asia/Tokyo"
    /\ Len(resolved.list) = 2
    /\ resolved.list[1].datetime_value = Some([wall |-> 100, tzinfo |-> ZoneInfo("Asia/Tokyo")])
    /\ resolved.list[2].datetime_value = Some([wall |-> 200, tzinfo |-> FixedOffset("+09:00")])

\* one candidate per record, in the records' order, empty for a None record
Aligned ==
    /\ Len(resolved.list) = Len(dict_list)
    /\ \A i \in DOMAIN dict_list :
           /\ dict_list[i] = NoData => resolved.list[i] = EmptyCandidate
           /\ resolved.list[i].key.some =>
                  /\ dict_list[i] # NoData
                  /\ resolved.list[i].raw_value
                         = Some(dict_list[i].tags[resolved.list[i].key.v])
           /\ resolved.list[i]
                  = ResolveOne(dict_list[i], target_key_list, default_timezone).cand

\* C8: resolve returns one candidate per record, in the order of the
\* records, and the candidate of a None record is the empty candidate.
C8_OnePerRecordInOrder ==
    resolved.outcome # "none" => (resolved.outcome = "returned" /\ Aligned)

\* the part of C8 that holds: every list that is returned is aligned
AlignedWhenReturned == resolved.outcome = "returned" => Aligned

AlignedReached ==
    /\ resolved.outcome = "returned"
    /\ dict_list = <<NoData, Rec1>>
    /\ resolved.list[1] = EmptyCandidate
    /\ resolved.list[2].key = Some("A")

\* C9: a tag value that does not parse never surfaces as an error: whatever
\* value a present tag holds, resolve returns a candidate for every record.
C9_NeverRaises == resolved.outcome # "raised"

(***************************************************************************)
(* Properties of two calls of get_datetime_value_by_key with the same      *)
(* arguments, checked under TwiceSpec.                                     *)
(***************************************************************************)
\* C19: a second call of resolve with the same records, the same priority
\* list and the same default timezone yields the same candidates as the
\* first, and no call modifies its arguments.
C19_ResolveIdempotent ==
    [][(resolved' # resolved \/ resolved_again' # resolved_again)
       => /\ UNCHANGED <<dict_list, target_key_list, default_timezone>>
          /\ resolved_again' # NotResolved => resolved_again' = resolved']_vars

\* some tag of some record holds a time of day with no date
HoldsTimeOnly ==
    \E i \in DOMAIN dict_list :
        /\ dict_list[i] # NoData
        /\ \E t \in Tags : dict_list[i].tags[t] = TimeOnly

\* the part of C19 that holds: the two calls agree when they are made on the
\* same day, which they always are when every value names its date
IdempotentOnDatedValues ==
    (resolved_again # NotResolved /\ ~HoldsTimeOnly) => resolved_again = resolved

\* the two calls, one before midnight and one after, returned different instants
DifferentDayReached ==
    /\ resolved.outcome = "returned"
    /\ resolved_again.outcome = "returned"
    /\ dict_list = <<Dict([t \in Tags |-> IF t = "A" THEN TimeOnly ELSE Absent])>>
    /\ target_key_list = <<"A">>
    /\ resolved.list[1].raw_value = resolved_again.list[1].raw_value
    /\ resolved.list[1].datetime_value # resolved_again.list[1].datetime_value

(***************************************************************************)
(* Properties of the DATETIME_LOCAL_UNIX column, checked under ProjectSpec.*)
(***************************************************************************)
\* the seconds from the epoch to the instant
TrueEpoch(dt) == (dt.wall - UtcOffset(dt)) - EpochWall

\* entry i of the column is the true epoch of instant i plus the offset of
\* the display zone at that instant, and is absent exactly when the instant is
NaiveEpoch(i) ==
    LET dv == resolved.list[i].datetime_value
    IN  IF dv.some
        THEN /\ unix_column.list[i].some
             /\ unix_column.list[i].v.units
                    = TrueEpoch(dv.v)
                      + OffsetAt(display_timezone, dv.v.wall - UtcOffset(dv.v))
             /\ unix_column.list[i].v.decimals = <<0, 0, 0, 0, 0, 0>>
        ELSE unix_column.list[i] = Nothing

\* C20: for every resolved instant and display timezone the UNIX column is
\* written, its entry is the true epoch seconds of the instant plus the UTC
\* offset of the display zone at that instant, and the entry is absent
\* exactly when the instant is absent.
C20_NaiveEpochProjection ==
    unix_column.outcome # "none" =>
        /\ unix_column.outcome = "written"
        /\ Len(unix_column.list) = Len(resolved.list)
        /\ \A i \in DOMAIN resolved.list : NaiveEpoch(i)

\* the part of C20 that holds: every column that is written is the naive epoch
NaiveEpochWhenWritten ==
    unix_column.outcome = "written" =>
        /\ Len(unix_column.list) = Len(resolved.list)
        /\ \A i \in DOMAIN resolved.list : NaiveEpoch(i)

\* 03:04:05+00:00 shown in a zone nine hours ahead is the epoch of 12:04:05Z
NaiveEpochReached ==
    /\ unix_column.outcome = "written"
    /\ display_timezone = "Asia/Tokyo"
    /\ Len(resolved.list) = 2
    /\ resolved.list[1].datetime_value = Nothing
    /\ resolved.list[2].datetime_value = Some([wall |-> 100, tzinfo |-> FixedOffset("+00:00")])
    /\ unix_column.list = <<Nothing, Some(Format6f(109 - EpochWall))>>

(***************************************************************************)
(* Properties of the framing of the worker's answer, checked under Spec.   *)
(***************************************************************************)
\* C21: the reading loop of execute_on_files ends at a line only when the
\* line is the sentinel {ready} itself; it does not go on past the sentinel;
\* every other line it reads is accumulated as payload, and the sentinel is
\* never among the accumulated lines.
C21_ExactSentinelFraming ==
    \A c \in Callers :
        LET k == call[c]
        IN  (k.op = "execute" /\ k.reads > 0)
            => /\ (k.pc = "ready" /\ k.last_line # EndOfStream)
                  => k.last_line = LineReady
               /\ k.pc = "reading"
                  => /\ k.last_line # LineReady
                     /\ k.lines_list # <<>>
                     /\ k.lines_list[Len(k.lines_list)] = k.last_line
               /\ \A i \in DOMAIN k.lines_list : k.lines_list[i] # LineReady

\* the part of C21 that holds: the loop ends at the first line that is the
\* sentinel once its leading and trailing blanks are dropped, and a line
\* with any other character around the sentinel is accumulated
FramedByStrippedSentinel ==
    \A c \in Callers :
        LET k == call[c]
        IN  (k.op = "execute" /\ k.reads > 0)
            => /\ (k.pc = "ready" /\ k.last_line # EndOfStream)
                  => k.last_line \in {LineReady, LinePaddedReady}
               /\ k.pc = "reading"
                  => /\ k.last_line \notin {LineReady, LinePaddedReady}
                     /\ k.lines_list # <<>>
                     /\ k.lines_list[Len(k.lines_list)] = k.last_line
               /\ \A i \in DOMAIN k.lines_list :
                      k.lines_list[i] \notin {LineReady, LinePaddedReady}

\* a line with blanks around the sentinel ended the batch
PaddedSentinelReached ==
    \E c \in Callers :
        /\ call[c].op = "execute" /\ call[c].outcome = "returned"
        /\ call[c].last_line = LinePaddedReady
        /\ call[c].lines_list = <<LineArrOne>>
        /\ call[c].result = <<Rec1>>

(***************************************************************************)
(* Properties of the submission of a batch, checked under SubmitSpec.      *)
(***************************************************************************)
\* the lines written are the existing paths of the list in their order, one
\* line each, and then the directive
WrittenOnePerPath(k) ==
    LET fpl == k.file_paths_list
        n == ExistsCount(fpl, Len(fpl))
    IN  /\ Len(k.written) = n + 1
        /\ k.written[n + 1] = ExecuteDirective
        /\ \A i \in DOMAIN fpl :
               Exists(fpl[i]) => k.written[ExistsCount(fpl, i)] = fpl[i]
        /\ \A j \in 1..n : Exists(k.written[j]) /\ k.written[j] # ExecuteDirective

\* C22: a call of execute_on_files that writes to the worker writes the
\* existing paths of its list in their order, one line per path and no line
\* that is not an existing path, then the line -execute as the last line,
\* and flushes; it has done so before it reads a line of the answer.
C22_BatchSubmission ==
    \A c \in Callers :
        LET k == call[c]
        IN  (k.op = "execute" /\ (k.written # <<>> \/ k.pc = "reading" \/ k.reads > 0))
            => /\ k.flushed
               /\ WrittenOnePerPath(k)

\* the part of C22 that holds: a batch none of whose paths holds a newline
SubmittedWhenOneLinePaths ==
    \A c \in Callers :
        LET k == call[c]
        IN  (/\ k.op = "execute"
             /\ k.written # <<>> \/ k.pc = "reading" \/ k.reads > 0
             /\ \A i \in DOMAIN k.file_paths_list :
                    Len(PathLines(k.file_paths_list[i])) = 1)
            => /\ k.flushed
               /\ WrittenOnePerPath(k)

\* one existing path was written as two lines, neither an existing path
TwoLinesForOnePathReached ==
    \E c \in Callers :
        /\ call[c].op = "execute" /\ call[c].pc = "reading"
        /\ call[c].file_paths_list = <<"m1", NewlinePath>>
        /\ call[c].written = <<"e", "3", ExecuteDirective>>

(***************************************************************************)
(* Properties of the life cycle of the session, checked under Spec.        *)
(***************************************************************************)
\* the session is open: it has a worker process and its pipes are open
SessionOpen == process # None /\ ~stdin_closed /\ ~stdout_closed

\* C23: __enter__ on a session that is not open, whether it was never
\* entered or was entered and closed by __exit__, is accepted and starts a
\* new worker process; AlreadyOpen is raised only on an open session.
C23_ReopenAfterClose ==
    [][\A c \in Callers :
          (call'[c] # call[c] /\ call'[c].op = "enter" /\ ~SessionOpen)
          => /\ call'[c].outcome = "returned"
             /\ spawned' = spawned + 1
             /\ process' = spawned'
             /\ worker' = "running"
             /\ ~stdin_closed' /\ ~stdout_closed' /\ ~stderr_closed']_vars

\* the part of C23 that holds: __enter__ on a session that was never entered
EnterWhenNeverEntered ==
    [][\A c \in Callers :
          (call'[c] # call[c] /\ call'[c].op = "enter" /\ process = None)
          => /\ call'[c].outcome = "returned"
             /\ spawned' = spawned + 1
             /\ process' = spawned'
             /\ worker' = "running"
             /\ ~stdin_closed' /\ ~stdout_closed' /\ ~stderr_closed']_vars

\* __enter__ was refused on a session that __exit__ had closed
RefusedAfterCloseReached ==
    \E c \in Callers :
        /\ call[c].op = "enter" /\ call[c].error = "AlreadyOpen"
        /\ spawned = 1 /\ worker = "exited"
        /\ stdin_closed /\ stdout_closed /\ stderr_closed

C25_ErrorStreamCollected ==
    [][\A c \in Callers :
          /\ (/\ call[c].op = "execute" /\ call[c].pc = "reading"
              /\ call'[c].pc = "ready")
             => stderr_pipe = 0
          /\ (/\ call'[c].op = "execute" /\ call'[c].pc = "reading"
              /\ out' = <<>>)
             => worker' # "blocked"]_vars

\* a call returned its result and the worker's diagnostics are still in the
\* stderr pipe, unread
DiagnosticsLeftReached ==
    \E c \in Callers :
        /\ call[c].op = "execute" /\ call[c].outcome = "returned"
        /\ call[c].result = <<Rec1>>
        /\ stderr_pipe = PipeCapacity
        /\ worker = "running"

\* readline() waits for the worker and the worker waits in a write to its
\* full stderr pipe: execute_on_files never returns
BlockedOnStderrReached ==
    \E c \in Callers :
        /\ call[c].op = "execute" /\ call[c].pc = "reading"
        /\ out = <<>> /\ pending > 0
        /\ stderr_pipe = PipeCapacity
        /\ worker = "blocked"

(***************************************************************************)
(* Properties of the isolation of successive batches, checked under        *)
(* RetrySpec.                                                              *)
(***************************************************************************)
\* C26: when one caller makes one call of execute_on_files after another on
\* an open session, every line a call reads is a line the worker wrote in
\* answer to that call's batch, and when a call returns its result the
\* worker has ended its answer and no line of it is left in the pipe.
C26_BatchesIsolated ==
    [][\A c \in Callers :
          (call[c].op = "execute" /\ call[c].pc = "reading")
          => /\ (call'[c].reads = call[c].reads + 1 /\ out # <<>>)
                => Head(owner.out) = <<c, call[c].number>>
             /\ (call'[c].pc = "ready" /\ call'[c].outcome = "returned")
                => pending' = 0 /\ emitted' = 0 /\ out' = <<>>]_vars

\* the part of C26 that holds: the first call on a session reads lines of the
\* answer to its own batch, and when it ends at the sentinel line itself
\* the worker has ended its answer and no line is left in the pipe
FirstCallIsolated ==
    [][\A c \in Callers :
          (call[c].op = "execute" /\ call[c].pc = "reading" /\ call[c].number = 1)
          => /\ (call'[c].reads = call[c].reads + 1 /\ out # <<>>)
                => Head(owner.out) = <<c, call[c].number>>
             /\ (call'[c].pc = "ready" /\ call'[c].last_line = LineReady)
                => pending' = 0 /\ emitted' = 0 /\ out' = <<>>]_vars

\* the first call ended at a sentinel with blanks around it; the second call
\* returned the record the worker wrote after it, in answer to the first
\* batch, and the second batch is still to be answered
StaleAnswerReached ==
    \E c \in Callers :
        /\ call[c].op = "execute" /\ call[c].outcome = "returned"
        /\ call[c].number = 2
        /\ call[c].file_paths_list = <<"m1", "e2">>
        /\ call[c].result = <<NoData, Rec1>>
        /\ owner.queue = <<<<c, 2>>>>
        /\ pending = 1

(***************************************************************************)
(* Properties of the reconciliation of records and paths, checked under    *)
(* Spec.                                                                   *)
(***************************************************************************)
\* C27: when the worker's answer decodes to a list of fewer records than
\* the existing paths sent, execute_on_files raises an error and returns no
\* result; when it decodes to a list of more records, execute_on_files
\* returns a list as long as the path list, with None at each missing path
\* and the k-th record at the k-th existing path, the records beyond the
\* last existing path being dropped.
C27_RecordCountMismatch ==
    \A c \in Callers :
        LET k == call[c]
            fpl == k.file_paths_list
            n == ExistsCount(fpl, Len(fpl))
            dec == JsonLoads(Concat(k.lines_list))
        IN  (/\ k.op = "execute" /\ k.pc = "ready" /\ k.flushed
             /\ k.reads > 0 /\ k.last_line \in {LineReady, LinePaddedReady}
             /\ dec.ok /\ dec.kind = "list")
            => /\ Len(dec.items) < n
                  => /\ k.outcome = "raised"
                     /\ k.error = "IndexError"
                     /\ k.result = <<>>
               /\ Len(dec.items) > n
                  => /\ k.outcome = "returned"
                     /\ Len(k.result) = Len(fpl)
                     /\ \A i \in DOMAIN fpl :
                            IF Exists(fpl[i])
                            THEN k.result[i] = dec.items[ExistsCount(fpl, i)]
                            ELSE k.result[i] = NoData

\* two records for one existing path: the first is returned, the second
\* dropped
C27_Witness ==
    \E c \in Callers :
        /\ call[c].op = "execute" /\ call[c].outcome = "returned"
        /\ call[c].file_paths_list = <<"m1", "e1">>
        /\ call[c].lines_list = <<LineArrOpen, LineArrClose>>
        /\ call[c].result = <<NoData, Rec1>>

\* one record for two existing paths: IndexError
TooFewRecordsReached ==
    \E c \in Callers :
        /\ call[c].op = "execute" /\ call[c].outcome = "raised"
        /\ call[c].file_paths_list = <<"e1", "e2">>
        /\ call[c].lines_list = <<LineArrOne>>
        /\ call[c].error = "IndexError"

====
